---- MODULE Spec2Model ----
(***************************************************************************)
(* ttcardgen: the text fitter (Utils.word_wrap), the template chain loader *)
(* (CardConfig.load, CardConfig.expand_paths) and the error reporting of   *)
(* a run (gencard and the __main__ block), as state machines.              *)
(*                                                                         *)
(* A string is a sequence of lines, a line a sequence of the characters    *)
(* "a" (a letter) and " " (a blank): the string is its lines joined by     *)
(* newlines.  A font size is counted in quarter points, so that the 0.75   *)
(* step of word_wrap is the integer 3.                                     *)
(***************************************************************************)
EXTENDS Integers, Sequences, FiniteSets, TLC

(***************************************************************************)
(* Bounds of the model.                                                    *)
(***************************************************************************)
MaxLineLen == 2
MaxLines == 2
MaxBox == 1
SmallFontSize == 3
BigFontSize == 76
MaxDepth == 2
MaxFields == 2
MaxFaults == 1
MaxText == 2

(***************************************************************************)
(* Program constants.                                                      *)
(***************************************************************************)
DEFAULT_FONT_SIZE == 20
ITERATION_ATTEMPTS == 100
QUARTERS == 4
FONT_STEP == 3
MAX_TEMPLATES == 100

Front(s) == SubSeq(s, 1, Len(s) - 1)
Last(s) == s[Len(s)]

RECURSIVE SeqsUpTo(_, _)
SeqsUpTo(S, n) ==
    IF n = 0 THEN {<<>>}
    ELSE LET shorter == SeqsUpTo(S, n - 1)
         IN  shorter \cup {Append(s, x) : s \in shorter, x \in S}

Chars == {"a", " "}
Lines == SeqsUpTo(Chars, MaxLineLen)
\* every string of at most MaxLines lines; <<<<>>>> is the empty string
Texts == SeqsUpTo(Lines, MaxLines) \ {<<>>}

(***************************************************************************)
(* str.splitlines: the lines of a string, a final empty piece dropped      *)
(* ("" has no line, "a\n" has one).                                        *)
(***************************************************************************)
splitlines(t) == IF Last(t) = <<>> THEN Front(t) ELSE t

RECURSIVE MaxLen(_)
MaxLen(ls) ==
    IF Len(ls) = 1 THEN Len(ls[1])
    ELSE LET m == MaxLen(Tail(ls))
         IN  IF Len(ls[1]) > m THEN Len(ls[1]) ELSE m

(***************************************************************************)
(* textwrap.wrap with its default options, on one line.  The line is split *)
(* into chunks, the maximal runs of blanks and of letters; each output     *)
(* line is filled greedily, a chunk longer than the width is broken to     *)
(* fill the room left, and blanks at the start of a later line and at the  *)
(* end of every line are dropped.                                          *)
(***************************************************************************)
RECURSIVE split_chunks(_)
split_chunks(s) ==
    IF s = <<>> THEN <<>>
    ELSE LET rest == split_chunks(Tail(s))
             ws   == (Head(s) = " ")
         IN  IF rest # <<>> /\ rest[1].ws = ws
             THEN <<[ws |-> ws, len |-> rest[1].len + 1]>> \o Tail(rest)
             ELSE <<[ws |-> ws, len |-> 1]>> \o rest

RECURSIVE chunk_text(_)
chunk_text(cs) ==
    IF cs = <<>> THEN <<>>
    ELSE [i \in 1..Head(cs).len |-> IF Head(cs).ws THEN " " ELSE "a"]
         \o chunk_text(Tail(cs))

RECURSIVE fill_line(_, _, _, _)
fill_line(chunks, cur, curlen, width) ==
    IF chunks # <<>> /\ curlen + Head(chunks).len <= width
    THEN fill_line(Tail(chunks), Append(cur, Head(chunks)),
                   curlen + Head(chunks).len, width)
    ELSE [chunks |-> chunks, cur |-> cur, curlen |-> curlen]

handle_long_word(f, width) ==
    IF f.chunks # <<>> /\ Head(f.chunks).len > width
    THEN LET space_left == width - f.curlen
             c == Head(f.chunks)
         IN  [chunks |-> <<[c EXCEPT !.len = c.len - space_left]>> \o Tail(f.chunks),
              cur    |-> Append(f.cur, [c EXCEPT !.len = space_left])]
    ELSE [chunks |-> f.chunks, cur |-> f.cur]

drop_whitespace(cur) ==
    IF cur # <<>> /\ (Last(cur).ws \/ Last(cur).len = 0) THEN Front(cur) ELSE cur

RECURSIVE wrap_chunks(_, _, _)
wrap_chunks(chunks, width, out) ==
    IF chunks = <<>> THEN out
    ELSE LET start == IF Head(chunks).ws /\ out # <<>> THEN Tail(chunks) ELSE chunks
             h     == handle_long_word(fill_line(start, <<>>, 0, width), width)
             cur   == drop_whitespace(h.cur)
         IN  wrap_chunks(h.chunks, width,
                         IF cur # <<>> THEN Append(out, chunk_text(cur)) ELSE out)

\* wrap(x, width) for width > 0; wrap raises ValueError for width <= 0
wrap(x, width) == wrap_chunks(split_chunks(x), width, <<>>)

\* '\n'.join(map(lambda x: '\n'.join(wrap(x, columns)), lines))
RECURSIVE wrap_lines(_, _)
wrap_lines(ls, columns) ==
    IF ls = <<>> THEN <<>>
    ELSE LET w == wrap(Head(ls), columns)
         IN  (IF w = <<>> THEN <<<<>>>> ELSE w) \o wrap_lines(Tail(ls), columns)

None == "None"

(***************************************************************************)
(* Paths.  A path is the sequence of its components, an absolute path      *)
(* starting with the component "/"; "" is the empty sequence.  The file    *)
(* system of the model has no symbolic link and no "." or ".." component.  *)
(***************************************************************************)
isabs(p) == p # <<>> /\ Head(p) = "/"
join(a, b) == IF isabs(b) THEN b ELSE a \o b
dirname(p) == Front(p)

(***************************************************************************)
(* configparser.  A ConfigParser is its DEFAULT section and its other      *)
(* sections, each a function from the keys it holds to their values.       *)
(***************************************************************************)
EmptyConfig == [defaults |-> <<>>, sections |-> <<>>]

\* DEFAULTCFG, lines 35-74: four sections, every key commented out
DEFAULTCFG == [defaults |-> <<>>,
               sections |-> [s \in {"Card", "Image", "Title", "Text"} |-> <<>>]]

has_section(config, section) == section \in DOMAIN config.sections

\* the keys of config[section]: its own and those of DEFAULT
options(config, section) ==
    DOMAIN config.sections[section] \cup DOMAIN config.defaults

\* config[section].get(key, fallback)
get(config, section, key, fallback) ==
    IF key \in DOMAIN config.sections[section] THEN config.sections[section][key]
    ELSE IF key \in DOMAIN config.defaults THEN config.defaults[key]
    ELSE fallback

\* dict(config[section].items()): the section with the DEFAULT keys it
\* does not set itself
items(config, section) ==
    [k \in options(config, section) |-> get(config, section, k, None)]

\* cfg.read_dict(config): DEFAULT is written into DEFAULT, and every section
\* of config is written, key by key as its items give them, into the section
\* of the same name, which is added when cfg has none
read_dict(cfg, config) ==
    [defaults |-> config.defaults @@ cfg.defaults,
     sections |->
        [s \in DOMAIN cfg.sections \cup DOMAIN config.sections |->
            IF s \notin DOMAIN config.sections THEN cfg.sections[s]
            ELSE IF s \notin DOMAIN cfg.sections THEN items(config, s)
            ELSE items(config, s) @@ cfg.sections[s]]]

(***************************************************************************)
(* read_dict step by step.  It reads every value through the section proxy *)
(* of config, which interpolates it (BasicInterpolation.before_get), and   *)
(* writes it with cfg.set, which validates it (before_set); either can     *)
(* raise, and what was written before stays written.  In the files of the  *)
(* model only the key text of the Card section holds free text, a sequence *)
(* of the characters "a" and "%"; the values of the other keys hold no     *)
(* "%", are read as they are and are valid.                                *)
(***************************************************************************)
TextChars == {"a", "%"}

\* BasicInterpolation._interpolate_some on a value without "(": "%%" reads
\* as "%", any other "%" is a syntax error
RECURSIVE interpolate_some(_)
interpolate_some(rest) ==
    IF rest = <<>> THEN [error |-> "none", value |-> <<>>]
    ELSE IF Head(rest) # "%"
    THEN LET r == interpolate_some(Tail(rest))
         IN  [error |-> r.error, value |-> <<Head(rest)>> \o r.value]
    ELSE IF Len(rest) >= 2 /\ rest[2] = "%"
    THEN LET r == interpolate_some(SubSeq(rest, 3, Len(rest)))
         IN  [error |-> r.error, value |-> <<"%">> \o r.value]
    ELSE [error |-> "InterpolationSyntaxError", value |-> <<>>]

\* value.replace('%%', '')
RECURSIVE without_escapes(_)
without_escapes(value) ==
    IF Len(value) < 2 THEN value
    ELSE IF value[1] = "%" /\ value[2] = "%"
    THEN without_escapes(SubSeq(value, 3, Len(value)))
    ELSE <<value[1]>> \o without_escapes(Tail(value))

\* BasicInterpolation.before_set: a "%" left after the escapes are taken
\* out is rejected with ValueError
invalid_syntax(value) ==
    \E i \in 1..Len(without_escapes(value)) : without_escapes(value)[i] = "%"

\* the order in which the files of the model declare their sections and the
\* keys of a section (a key that expand_paths adds comes last)
SectionOrder == <<"Card", "Image", "Title", "Text">>
KeyOrder == <<"template", "background", "backside", "text", "area", "font",
              "font_size", "fong">>

ordered(order, S) == LET member(x) == x \in S IN SelectSeq(order, member)

\* the keys of config[section] as its items give them: its own, then those
\* of DEFAULT it does not set
keys(config, section) ==
    ordered(KeyOrder, DOMAIN config.sections[section])
    \o ordered(KeyOrder, DOMAIN config.defaults \ DOMAIN config.sections[section])

RECURSIVE section_steps(_, _)
section_steps(config, sections) ==
    IF sections = <<>> THEN <<>>
    ELSE LET s == Head(sections)
             ks == keys(config, s)
         IN  <<[op |-> "add_section", section |-> s, key |-> None]>>
             \o [j \in 1..Len(ks) |-> [op |-> "set", section |-> s, key |-> ks[j]]]
             \o section_steps(config, Tail(sections))

\* what read_dict does, in order: DEFAULT key by key, then every section,
\* added when missing and written key by key
read_dict_steps(config) ==
    LET ds == ordered(KeyOrder, DOMAIN config.defaults)
    IN  [j \in 1..Len(ds) |-> [op |-> "set", section |-> "DEFAULT", key |-> ds[j]]]
        \o section_steps(config, ordered(SectionOrder, DOMAIN config.sections))

\* the value a step reads, before interpolation
raw_value(config, step) ==
    IF step.section = "DEFAULT" THEN config.defaults[step.key]
    ELSE get(config, step.section, step.key, None)

\* the exception a step raises, "none" when it raises none
step_error(config, step) ==
    IF step.op = "set" /\ step.key = "text"
    THEN LET r == interpolate_some(raw_value(config, step))
         IN  IF r.error # "none" THEN r.error
             ELSE IF invalid_syntax(r.value) THEN "ValueError"
             ELSE "none"
    ELSE "none"

\* the value a step writes
set_value(config, step) ==
    IF step.key = "text" THEN interpolate_some(raw_value(config, step)).value
    ELSE raw_value(config, step)

\* cfg after a step that raises nothing
apply_step(cfg, config, step) ==
    IF step.op = "add_section"
    THEN IF step.section \in DOMAIN cfg.sections THEN cfg
         ELSE [cfg EXCEPT !.sections = (step.section :> <<>>) @@ cfg.sections]
    ELSE IF step.section = "DEFAULT"
    THEN [cfg EXCEPT !.defaults =
             (step.key :> set_value(config, step)) @@ cfg.defaults]
    ELSE [cfg EXCEPT !.sections[step.section] =
             (step.key :> set_value(config, step)) @@ cfg.sections[step.section]]

RECURSIVE run_steps(_, _, _)
run_steps(cfg, config, steps) ==
    IF steps = <<>> THEN [cfg |-> cfg, error |-> "none"]
    ELSE IF step_error(config, Head(steps)) # "none"
    THEN [cfg |-> cfg, error |-> step_error(config, Head(steps))]
    ELSE run_steps(apply_step(cfg, config, Head(steps)), config, Tail(steps))

\* the exception cfg.read_dict(config) raises, "none" when it raises none
read_dict_raises(cfg, config) ==
    run_steps(cfg, config, read_dict_steps(config)).error

\* cfg as a read_dict that raises leaves it
read_dict_partial(cfg, config) ==
    run_steps(cfg, config, read_dict_steps(config)).cfg

\* the names of the model that start with "image", "Title" or "Text"
startswith_image(key) == key \in {"image", "image1"}
startswith_Title_or_Text(section) == section \in {"Title", "Title1", "Text", "Text1"}

\* CardConfig.expand_paths(config, relpath), lines 197-208, for a config
\* with a Card section
expand_paths(config, relpath) ==
    LET path(section, key) == get(config, section, key, <<>>)
        filekeys == {"template", "background", "backside"}
                    \cup {k \in options(config, "Card") : startswith_image(k)}
        expanded == {k \in filekeys : Len(path("Card", k)) > 0}
        card == config.sections["Card"]
        newcard == [k \in DOMAIN card \cup expanded |->
                       IF k \in expanded THEN join(relpath, path("Card", k))
                       ELSE card[k]]
        newsection(s) ==
            IF s = "Card" THEN newcard
            ELSE IF startswith_Title_or_Text(s) /\ Len(path(s, "font")) > 0
                 THEN ("fong" :> join(relpath, path(s, "font")))
                      @@ config.sections[s]
                 ELSE config.sections[s]
    IN  [defaults |-> config.defaults,
         sections |-> [s \in DOMAIN config.sections |-> newsection(s)]]

VARIABLES
    running,            \* the operation this behaviour runs
    pc,                 \* its position
    exc,                \* the exception that ended it, NoExc while there is none
    \* ---- Utils.word_wrap
    text,               \* the parameter text
    image,              \* the parameter image: its width and height
    font_size,          \* ctx.font_size, in quarter points
    metrics,            \* ctx.get_font_metrics at the current font size, as far
                        \* as it has been asked: candidate -> measured size
    lines, maxcolumns, iteration_attempts, mutable_message, columns,
                        \* the locals of word_wrap
    result,             \* the returned string, None before the return
    \* ---- CardConfig.load
    chain,              \* the files on disk: a chain of templates
    cfg,                \* self.cfg, the merged config
    stack,              \* the calls of load that wait for their template
    call,               \* the call of load being entered: filename, level
    \* ---- CardConfig.expand_paths, called on its own
    args,               \* the positional arguments of the call
    disk,               \* the regular files that exist
    expanded,           \* the config after the call, None before
    \* ---- gencard and the __main__ block
    scenario,           \* what is wrong with the config of the run
    keyno,              \* the number of the Card key gencard has reached
    origin,             \* the exception as first raised, before any wrapping
    stdout,             \* the prefix of the message printed, None if none
    exitcode            \* the exit code of the process, None while it runs

wwvars == <<text, image, font_size, metrics, lines, maxcolumns,
            iteration_attempts, mutable_message, columns, result>>

ldvars == <<chain, cfg, stack, call>>

xpvars == <<args, disk, expanded>>

mnvars == <<scenario, keyno, origin, stdout, exitcode>>

vars == <<running, pc, exc, wwvars, ldvars, xpvars, mnvars>>

NoExc == [type |-> "none", line |-> 0]
Raise(type, line) == [type |-> type, line |-> line]

LDIdle == chain = None /\ cfg = None /\ stack = <<>> /\ call = None

XPIdle == args = <<>> /\ disk = {} /\ expanded = None

MNIdle ==
    /\ scenario = None /\ keyno = 0 /\ origin = NoExc /\ stdout = None
    /\ exitcode = None

(***************************************************************************)
(* Utils.word_wrap.                                                        *)
(***************************************************************************)
Dims == 1..(MaxBox + 1)
Boxes == [width : 1..MaxBox, height : 1..MaxBox]
FontSizes == {SmallFontSize, DEFAULT_FONT_SIZE, BigFontSize}

WWIdle ==
    /\ text = None /\ image = None /\ font_size = 0 /\ metrics = <<>>
    /\ lines = <<>> /\ maxcolumns = 0 /\ iteration_attempts = 0
    /\ mutable_message = None /\ columns = 0
    /\ result = None

WWInit ==
    /\ running = "word_wrap" /\ pc = "start" /\ exc = NoExc
    /\ text \in Texts
    /\ image \in Boxes
    /\ font_size \in {QUARTERS * s : s \in FontSizes}
    /\ metrics = <<>>
    /\ lines = <<>> /\ maxcolumns = 0 /\ iteration_attempts = 0
    /\ mutable_message = None /\ columns = 0
    /\ result = None
    /\ LDIdle /\ XPIdle /\ MNIdle

\* eval_metrics(txt): what ctx.get_font_metrics may answer for txt at the
\* current font size; one answer per candidate and font size
eval_metrics(txt) ==
    IF txt \in DOMAIN metrics THEN {metrics[txt]}
    ELSE [text_width : Dims, text_height : Dims]

Measured(txt, m) == (txt :> m) @@ metrics

\* ctx.font_size -= 0.75; mutable_message = text.  The font_size setter of
\* the drawing context is not part of this program: given a negative size it
\* either keeps it or raises ValueError.
ReducePointsize(line) ==
    LET size == font_size - FONT_STEP
    IN  \/ /\ font_size' = size
           /\ metrics' = <<>>
           /\ mutable_message' = text
           /\ pc' = "while"
           /\ exc' = exc
        \/ /\ size < 0
           /\ exc' = Raise("ValueError", line)
           /\ pc' = "done"
           /\ UNCHANGED <<font_size, metrics, mutable_message>>

\* lines 495-498, text without a line: max() of an empty sequence
WrapBeginEmpty ==
    /\ running = "word_wrap" /\ pc = "start"
    /\ splitlines(text) = <<>>
    /\ mutable_message' = text
    /\ lines' = splitlines(text)
    /\ exc' = Raise("ValueError", 497)
    /\ pc' = "done"
    /\ UNCHANGED <<ldvars, xpvars, mnvars, running, text, image, font_size, metrics, maxcolumns,
                   iteration_attempts, columns, result>>

\* lines 495-498
WrapBegin ==
    /\ running = "word_wrap" /\ pc = "start"
    /\ splitlines(text) # <<>>
    /\ mutable_message' = text
    /\ lines' = splitlines(text)
    /\ maxcolumns' = MaxLen(splitlines(text))
    /\ iteration_attempts' = ITERATION_ATTEMPTS
    /\ pc' = "while"
    /\ UNCHANGED <<ldvars, xpvars, mnvars, running, exc, text, image, font_size, metrics, columns, result>>

LoopCondition == font_size > 0 /\ iteration_attempts # 0

\* lines 505-510: the candidate is too high
AttemptTooHigh ==
    /\ running = "word_wrap" /\ pc = "while" /\ LoopCondition
    /\ \E m \in eval_metrics(mutable_message) :
          m.text_height > image.height
    /\ iteration_attempts' = iteration_attempts - 1
    /\ ReducePointsize(509)
    /\ UNCHANGED <<ldvars, xpvars, mnvars, running, text, image, lines, maxcolumns, columns, result>>

\* lines 505-512: the candidate is too wide
AttemptTooWide ==
    /\ running = "word_wrap" /\ pc = "while" /\ LoopCondition
    /\ \E m \in eval_metrics(mutable_message) :
          /\ m.text_height <= image.height
          /\ m.text_width > image.width
          /\ metrics' = Measured(mutable_message, m)
    /\ iteration_attempts' = iteration_attempts - 1
    /\ columns' = maxcolumns
    /\ pc' = "columns"
    /\ UNCHANGED <<ldvars, xpvars, mnvars, running, exc, text, image, font_size, lines, maxcolumns,
                   mutable_message, result>>

\* lines 505-507, 522-523: the candidate fits
AttemptFits ==
    /\ running = "word_wrap" /\ pc = "while" /\ LoopCondition
    /\ \E m \in eval_metrics(mutable_message) :
          /\ m.text_height <= image.height
          /\ m.text_width <= image.width
          /\ metrics' = Measured(mutable_message, m)
    /\ iteration_attempts' = iteration_attempts - 1
    /\ pc' = "end"
    /\ UNCHANGED <<ldvars, xpvars, mnvars, running, exc, text, image, font_size, lines, maxcolumns,
                   mutable_message, columns, result>>

\* line 505: the loop condition fails
LoopExit ==
    /\ running = "word_wrap" /\ pc = "while" /\ ~LoopCondition
    /\ pc' = "end"
    /\ UNCHANGED <<ldvars, xpvars, mnvars, running, exc, wwvars, ldvars>>

\* lines 513-515: wrap is called with the width 0
ColumnsWrapValueError ==
    /\ running = "word_wrap" /\ pc = "columns"
    /\ columns > 0
    /\ columns - 1 <= 0
    /\ columns' = columns - 1
    /\ exc' = Raise("ValueError", 515)
    /\ pc' = "done"
    /\ UNCHANGED <<ldvars, xpvars, mnvars, running, text, image, font_size, metrics, lines, maxcolumns,
                   iteration_attempts, mutable_message, result>>

\* lines 513-517: the text wrapped at the next column width is too wide
ColumnsWrapTooWide ==
    /\ running = "word_wrap" /\ pc = "columns"
    /\ columns > 0
    /\ columns - 1 > 0
    /\ columns' = columns - 1
    /\ mutable_message' = wrap_lines(lines, columns - 1)
    /\ \E m \in eval_metrics(wrap_lines(lines, columns - 1)) :
          /\ m.text_width > image.width
          /\ metrics' = Measured(wrap_lines(lines, columns - 1), m)
    /\ UNCHANGED <<ldvars, xpvars, mnvars, running, pc, exc, text, image, font_size, lines, maxcolumns,
                   iteration_attempts, result>>

\* lines 513-519: the text wrapped at the next column width is narrow
\* enough; columns is at least 1, the outer loop goes on
ColumnsWrapFits ==
    /\ running = "word_wrap" /\ pc = "columns"
    /\ columns > 0
    /\ columns - 1 > 0
    /\ columns' = columns - 1
    /\ mutable_message' = wrap_lines(lines, columns - 1)
    /\ \E m \in eval_metrics(wrap_lines(lines, columns - 1)) :
          /\ m.text_width <= image.width
          /\ metrics' = Measured(wrap_lines(lines, columns - 1), m)
    /\ pc' = "while"
    /\ UNCHANGED <<ldvars, xpvars, mnvars, running, exc, text, image, font_size, lines, maxcolumns,
                   iteration_attempts, result>>

\* lines 513, 519-521: the column loop ends with columns < 1
ColumnsExhausted ==
    /\ running = "word_wrap" /\ pc = "columns"
    /\ ~(columns > 0)
    /\ columns < 1
    /\ ReducePointsize(520)
    /\ UNCHANGED <<ldvars, xpvars, mnvars, running, text, image, lines, maxcolumns, iteration_attempts,
                   columns, result>>

\* lines 524-525
WrapRaise ==
    /\ running = "word_wrap" /\ pc = "end"
    /\ iteration_attempts < 1
    /\ exc' = Raise("CardError", 525)
    /\ pc' = "done"
    /\ UNCHANGED <<ldvars, xpvars, mnvars, running, wwvars, ldvars>>

\* lines 524, 526
WrapReturn ==
    /\ running = "word_wrap" /\ pc = "end"
    /\ ~(iteration_attempts < 1)
    /\ result' = mutable_message
    /\ pc' = "done"
    /\ UNCHANGED <<ldvars, xpvars, mnvars, running, exc, text, image, font_size, metrics, lines,
                   maxcolumns, iteration_attempts, mutable_message, columns>>

word_wrap ==
    \/ WrapBeginEmpty \/ WrapBegin
    \/ AttemptTooHigh \/ AttemptTooWide \/ AttemptFits \/ LoopExit
    \/ ColumnsWrapValueError \/ ColumnsWrapTooWide \/ ColumnsWrapFits
    \/ ColumnsExhausted
    \/ WrapRaise \/ WrapReturn

SpecWrap == WWInit /\ [][word_wrap]_vars

(***************************************************************************)
(* The files on disk.  The file given to load is cards/0, seen from the    *)
(* working directory /; the file at depth i of its template chain is       *)
(* /cards/i, and names the next one as its template, by a path relative to *)
(* its own directory at even depths and by an absolute path at odd depths. *)
(* chain.tail says how the deepest file ends the chain: without a          *)
(* template ("none"), naming a file that does not exist ("missing"), with  *)
(* an empty template ("empty"), without a Card section ("nocard"), or      *)
(* naming itself ("self") or the first file ("root") as its template.      *)
(* The file at depth i sets or does not set font_size in its Text section  *)
(* and in its DEFAULT section, as its kind says.  chain.cardtext says which *)
(* file, if any, gives a text in its Card section, and the text.           *)
(***************************************************************************)
cwd == <<"/">>
RootFilename == <<"cards", "0">>

realpath(p) == IF isabs(p) THEN p ELSE cwd \o p

Kinds == [text : {"absent", "plain", "sets"}, default : BOOLEAN]
Tails == {"none", "missing", "empty", "nocard", "self", "root"}
DeepDepths == {MAX_TEMPLATES - 1, MAX_TEMPLATES, MAX_TEMPLATES + 1}

\* the texts of a Card section, and no text in any file
CardTexts == SeqsUpTo(TextChars, MaxText) \ {<<>>}
NoText == [at |-> -1, value |-> <<>>]

Chains ==
    \* short chains that end, every file of its own kind
    [exists : {TRUE}, depth : 0..MaxDepth,
     tail : {"none", "missing", "empty", "nocard"},
     kind0 : Kinds, kind1 : Kinds, kindrest : Kinds, cardtext : {NoText}]
    \cup
    \* short chains that end, all files of one kind, one file with a text
    {c \in {[exists |-> TRUE, depth |-> d, tail |-> t,
             kind0 |-> k, kind1 |-> k, kindrest |-> k,
             cardtext |-> [at |-> a, value |-> v]] :
               d \in 0..MaxDepth, t \in {"none", "missing", "empty", "nocard"},
               k \in Kinds, a \in 0..MaxDepth, v \in CardTexts} :
        c.cardtext.at <= c.depth}
    \cup
    \* chains around the limit of the depth and chains with a cycle, all
    \* files of one kind
    {[exists |-> TRUE, depth |-> d, tail |-> t,
      kind0 |-> k, kind1 |-> k, kindrest |-> k, cardtext |-> NoText] :
        d \in DeepDepths, t \in Tails, k \in Kinds}
    \cup
    {[exists |-> TRUE, depth |-> d, tail |-> t,
      kind0 |-> k, kind1 |-> k, kindrest |-> k, cardtext |-> NoText] :
        d \in 0..MaxDepth, t \in {"self", "root"}, k \in Kinds}
    \cup
    \* no file at all
    {[exists |-> FALSE, depth |-> 0, tail |-> "none",
      kind0 |-> k, kind1 |-> k, kindrest |-> k, cardtext |-> NoText] :
        k \in {[text |-> "absent", default |-> FALSE]}}

ChainPath(i) == <<"/", "cards", ToString(i)>>

KindAt(i) == IF i = 0 THEN chain.kind0
             ELSE IF i = 1 THEN chain.kind1 ELSE chain.kindrest

\* the value a file gives font_size says which file it is and the section
SetBy(i, section) == [by |-> i, section |-> section]

CardText(i) ==
    IF chain.cardtext.at = i THEN "text" :> chain.cardtext.value ELSE <<>>

CardSection(i) ==
    CardText(i) @@
    IF i < chain.depth
    THEN "template" :> (IF i % 2 = 0 THEN <<ToString(i + 1)>> ELSE ChainPath(i + 1))
    ELSE CASE chain.tail = "missing" -> "template" :> <<"missing">>
           [] chain.tail = "empty"   -> "template" :> <<>>
           [] chain.tail = "self"    -> "template" :> <<ToString(i)>>
           [] chain.tail = "root"    -> "template" :> ChainPath(0)
           [] OTHER                  -> <<>>

TextSection(i) ==
    IF KindAt(i).text = "sets"
    THEN ("area" :> "0 0 1 1") @@ ("font" :> <<"fonts", "text.ttf">>)
         @@ ("font_size" :> SetBy(i, "Text"))
    ELSE "area" :> "0 0 1 1"

FileContent(i) ==
    [defaults |-> IF KindAt(i).default
                  THEN "font_size" :> SetBy(i, "DEFAULT") ELSE <<>>,
     sections |->
        [s \in (IF i = chain.depth /\ chain.tail = "nocard" THEN {} ELSE {"Card"})
               \cup (IF KindAt(i).text = "absent" THEN {} ELSE {"Text"}) |->
            IF s = "Card" THEN CardSection(i) ELSE TextSection(i)]]

IsChainFile(p) == chain.exists /\ \E i \in 0..chain.depth : p = ChainPath(i)

\* os.path.isdir: the directories are / and /cards
isdir(p) == p \in {<<"/">>, <<"/", "cards">>}

\* os.path.exists, which load does not use
exists(p) == IsChainFile(p) \/ isdir(p)

\* os.path.isfile
isfile(p) == IsChainFile(p)

\* ConfigParser().read(cfgpath): a file that cannot be read is skipped
read(cfgpath) ==
    IF IsChainFile(cfgpath)
    THEN FileContent(CHOOSE i \in 0..chain.depth : cfgpath = ChainPath(i))
    ELSE EmptyConfig

(***************************************************************************)
(* CardConfig.load, lines 141-163.                                         *)
(***************************************************************************)
LDInit ==
    /\ running = "load" /\ pc = "load" /\ exc = NoExc
    /\ chain \in Chains
    /\ cfg = DEFAULTCFG
    /\ stack = <<>>
    /\ call = [filename |-> RootFilename, level |-> 0]
    /\ WWIdle /\ XPIdle /\ MNIdle

\* the guard of line 143 off by one
TooManyTemplatesFromLimit(level) == level >= MAX_TEMPLATES

TooManyTemplates(level) == level > MAX_TEMPLATES

\* the local config of the call being entered, after line 158
config_of(filename) ==
    expand_paths(read(realpath(filename)), dirname(realpath(filename)))

Returned(frames) == IF frames = <<>> THEN "done" ELSE "merge"

\* lines 143-144
LoadTooManyTemplates ==
    /\ running = "load" /\ pc = "load"
    /\ TooManyTemplates(call.level)
    /\ exc' = Raise("CardConfigError", 144)
    /\ pc' = "done"
    /\ UNCHANGED <<running, wwvars, ldvars, xpvars, mnvars>>

\* lines 146-148
LoadFileNotFound ==
    /\ running = "load" /\ pc = "load"
    /\ ~TooManyTemplates(call.level)
    /\ ~isfile(realpath(call.filename))
    /\ exc' = Raise("CardFileError", 148)
    /\ pc' = "done"
    /\ UNCHANGED <<running, wwvars, ldvars, xpvars, mnvars>>

\* lines 150-156
LoadMissingCard ==
    /\ running = "load" /\ pc = "load"
    /\ ~TooManyTemplates(call.level)
    /\ isfile(realpath(call.filename))
    /\ ~has_section(read(realpath(call.filename)), "Card")
    /\ exc' = Raise("CardConfigError", 156)
    /\ pc' = "done"
    /\ UNCHANGED <<running, wwvars, ldvars, xpvars, mnvars>>

\* lines 150-161: the file names a template, which is loaded first
LoadTemplate ==
    /\ running = "load" /\ pc = "load"
    /\ ~TooManyTemplates(call.level)
    /\ isfile(realpath(call.filename))
    /\ has_section(read(realpath(call.filename)), "Card")
    /\ LET config == config_of(call.filename)
       IN  /\ "template" \in options(config, "Card")
           /\ stack' = Append(stack, [filename |-> call.filename,
                                      level |-> call.level, config |-> config])
           /\ call' = [filename |-> get(config, "Card", "template", None),
                       level |-> call.level + 1]
    /\ UNCHANGED <<running, pc, exc, wwvars, xpvars, mnvars, chain, cfg>>

\* lines 150-163: the file names no template, it is merged and load returns
LoadNoTemplate ==
    /\ running = "load" /\ pc = "load"
    /\ ~TooManyTemplates(call.level)
    /\ isfile(realpath(call.filename))
    /\ has_section(read(realpath(call.filename)), "Card")
    /\ LET config == config_of(call.filename)
       IN  /\ "template" \notin options(config, "Card")
           /\ read_dict_raises(cfg, config) = "none"
           /\ cfg' = read_dict(cfg, config)
    /\ call' = None
    /\ pc' = Returned(stack)
    /\ UNCHANGED <<running, exc, wwvars, xpvars, mnvars, chain, stack>>

\* lines 150-163: the file names no template, and read_dict raises on one
\* of its values
LoadNoTemplateMergeRaises ==
    /\ running = "load" /\ pc = "load"
    /\ ~TooManyTemplates(call.level)
    /\ isfile(realpath(call.filename))
    /\ has_section(read(realpath(call.filename)), "Card")
    /\ LET config == config_of(call.filename)
       IN  /\ "template" \notin options(config, "Card")
           /\ read_dict_raises(cfg, config) # "none"
           /\ cfg' = read_dict_partial(cfg, config)
           /\ exc' = Raise(read_dict_raises(cfg, config), 163)
    /\ pc' = "done"
    /\ UNCHANGED <<running, wwvars, xpvars, mnvars, chain, stack, call>>

\* line 163, after the template has been loaded (line 161)
LoadMerge ==
    /\ running = "load" /\ pc = "merge"
    /\ read_dict_raises(cfg, Last(stack).config) = "none"
    /\ cfg' = read_dict(cfg, Last(stack).config)
    /\ stack' = Front(stack)
    /\ pc' = Returned(Front(stack))
    /\ UNCHANGED <<running, exc, wwvars, xpvars, mnvars, chain, call>>

\* line 163, after the template has been loaded: read_dict raises on one of
\* the values of the file
LoadMergeRaises ==
    /\ running = "load" /\ pc = "merge"
    /\ read_dict_raises(cfg, Last(stack).config) # "none"
    /\ cfg' = read_dict_partial(cfg, Last(stack).config)
    /\ exc' = Raise(read_dict_raises(cfg, Last(stack).config), 163)
    /\ pc' = "done"
    /\ UNCHANGED <<running, wwvars, xpvars, mnvars, chain, stack, call>>

load ==
    \/ LoadTooManyTemplates \/ LoadFileNotFound \/ LoadMissingCard
    \/ LoadTemplate \/ LoadNoTemplate \/ LoadNoTemplateMergeRaises
    \/ LoadMerge \/ LoadMergeRaises

SpecLoad == LDInit /\ [][load]_vars

(***************************************************************************)
(* CardConfig.expand_paths called on its own, as test.py does, lines       *)
(* 29-34: with a config, a directory and, in the test, the settings.       *)
(***************************************************************************)
\* a key that is absent, or present with one of the values
Entry(key, values) == {<<>>} \cup {key :> v : v \in values}

RelPath == <<"test", "nonexistent">>
AbsPath == <<"/", "abs", "file">>
SCRIPT_DIR == <<"/", "src">>
SearchDir == <<"/", "share">>

CardSections ==
    {t @@ b @@ i @@ x :
        t \in Entry("template", {<<>>, RelPath, AbsPath}),
        b \in Entry("background", {RelPath}),
        i \in Entry("image1", {RelPath, AbsPath}),
        x \in Entry("text", {"A Fork"})}

FontSections == Entry("font", {<<>>, RelPath, AbsPath})

ArgConfigs ==
    {[defaults |-> d, sections |-> c @@ ("Image" :> <<>>) @@ ("Text" :> f)] :
        d \in Entry("font", {RelPath}),
        c \in {<<>>} \cup {"Card" :> cs : cs \in CardSections},
        f \in FontSections}
    \cup
    {[defaults |-> <<>>,
      sections |-> ("Card" :> cs) @@ ("Title1" :> f) @@ ("Image1" :> f)] :
        cs \in CardSections, f \in FontSections}

\* the settings: the search paths
SettingsValues == {<<>>, <<SearchDir>>}

XPInit ==
    /\ running = "expand_paths" /\ pc = "call" /\ exc = NoExc
    /\ args \in {<<c, d>> : c \in ArgConfigs, d \in {SCRIPT_DIR, <<"/">>}}
                \cup {<<c, SCRIPT_DIR, st>> : c \in ArgConfigs, st \in SettingsValues}
    /\ disk \in SUBSET {SCRIPT_DIR \o RelPath, SearchDir \o RelPath}
    /\ expanded = None
    /\ WWIdle /\ LDIdle /\ MNIdle

\* line 191: the function takes two positional arguments
ExpandPathsTypeError ==
    /\ running = "expand_paths" /\ pc = "call"
    /\ Len(args) # 2
    /\ exc' = Raise("TypeError", 191)
    /\ pc' = "done"
    /\ UNCHANGED <<running, wwvars, ldvars, xpvars, mnvars>>

\* lines 192-195
ExpandPathsMissingCard ==
    /\ running = "expand_paths" /\ pc = "call"
    /\ Len(args) = 2
    /\ ~has_section(args[1], "Card")
    /\ exc' = Raise("CardConfigError", 195)
    /\ pc' = "done"
    /\ UNCHANGED <<running, wwvars, ldvars, xpvars, mnvars>>

\* lines 192-208
ExpandPaths ==
    /\ running = "expand_paths" /\ pc = "call"
    /\ Len(args) = 2
    /\ has_section(args[1], "Card")
    /\ expanded' = expand_paths(args[1], args[2])
    /\ pc' = "done"
    /\ UNCHANGED <<running, exc, wwvars, ldvars, mnvars, args, disk>>

expand ==
    ExpandPathsTypeError \/ ExpandPathsMissingCard \/ ExpandPaths

SpecExpand == XPInit /\ [][expand]_vars

(***************************************************************************)
(* A run: the __main__ block, lines 599-612, with gencard, lines 535-559.  *)
(* The scenario says what is wrong with the config: the exception load     *)
(* ends with, the fault the Card constructor meets, and for every key of   *)
(* the Card section its value and the faults of its section.               *)
(***************************************************************************)
\* isinstance(e, cls) for the classes of lines 81-90
isinstance(type, cls) ==
    \/ type = cls
    \/ cls = "CardError" /\ type \in {"CardConfigError", "CardFileError"}
    \/ cls = "Exception" /\ type # "none"

Faults == {"section", "area_missing", "area_bad", "image", "font_size",
           "colour", "rotate", "resize", "trim"}

FaultSets == {f \in SUBSET Faults : Cardinality(f) <= MaxFaults}

\* a key of the Card section: its value, the faults of the section named
\* after it, and how word_wrap ends when it is called for it
Fields ==
    [key : {"title", "text"}, value : {"empty", "plain", "PANGO:"},
     faults : FaultSets, word_wrap : {"fits"}]
    \cup [key : {"title", "text"}, value : {"plain"},
          faults : {{}}, word_wrap : {"CardError", "ValueError"}]
    \cup [key : {"image", "pango"}, value : {"empty", "plain"},
          faults : FaultSets, word_wrap : {"fits"}]
    \cup [key : {"border"}, value : {"plain"},
          faults : {{}}, word_wrap : {"fits"}]

\* the first of the checks, in the order of the code, that the faults of
\* the field make fail
RECURSIVE FirstRaised(_, _)
FirstRaised(faults, checks) ==
    IF checks = <<>> THEN NoExc
    ELSE IF Head(checks)[1] \in faults THEN Head(checks)[2]
    ELSE FirstRaised(faults, Tail(checks))

\* Card.text, lines 373-425
text_raises(f) ==
    IF f.value = "empty" THEN NoExc
    ELSE LET e == FirstRaised(f.faults,
                    << <<"section", Raise("CardConfigError", 138)>>,
                       <<"area_missing", Raise("CardConfigError", 383)>>,
                       <<"area_bad", Raise("CardConfigError", 176)>>,
                       <<"image", Raise("CardError", 293)>>,
                       <<"font_size", Raise("CardConfigError", 394)>>,
                       <<"colour", Raise("CardConfigError", 400)>>,
                       <<"rotate", Raise("CardConfigError", 405)>> >>)
         IN  IF e # NoExc THEN e
             ELSE IF f.word_wrap = "CardError" THEN Raise("CardError", 525)
             ELSE IF f.word_wrap = "ValueError" THEN Raise("ValueError", 515)
             ELSE NoExc

\* config[k.capitalize()] and Card.pango, lines 544 or 554 and 427-481
pango_raises(f) ==
    IF "section" \in f.faults THEN Raise("CardConfigError", 138)
    ELSE IF f.value = "empty" THEN NoExc
    ELSE FirstRaised(f.faults,
            << <<"area_missing", Raise("CardConfigError", 435)>>,
               <<"area_bad", Raise("CardConfigError", 176)>>,
               <<"font_size", Raise("CardConfigError", 445)>>,
               <<"rotate", Raise("CardConfigError", 451)>>,
               <<"image", Raise("CardError", 293)>> >>)

\* Card.merge_image, lines 327-371
merge_image_raises(f) ==
    IF f.value = "empty" THEN NoExc
    ELSE FirstRaised(f.faults,
            << <<"section", Raise("CardConfigError", 138)>>,
               <<"image", Raise("CardError", 293)>>,
               <<"area_missing", Raise("CardConfigError", 342)>>,
               <<"area_bad", Raise("CardConfigError", 176)>>,
               <<"resize", Raise("CardConfigError", 349)>>,
               <<"trim", Raise("CardConfigError", 354)>>,
               <<"rotate", Raise("CardConfigError", 359)>> >>)

\* the body of the try of gencard, lines 540-554
field_raises(f) ==
    IF f.key \in {"title", "text"}
    THEN IF f.value = "PANGO:" THEN pango_raises(f) ELSE text_raises(f)
    ELSE IF f.key = "image" THEN merge_image_raises(f)
    ELSE IF f.key = "pango" THEN pango_raises(f)
    ELSE NoExc

\* the exceptions load ends with (lines 144, 148, 156)
LoadRaises == {Raise("CardConfigError", 144), Raise("CardFileError", 148),
               Raise("CardConfigError", 156)}

\* the exceptions Card.__init__ ends with (lines 237, 293, 258, 263)
CardRaises == {Raise("CardConfigError", 237), Raise("CardError", 293),
               Raise("CardConfigError", 258), Raise("CardConfigError", 263)}

Scenarios ==
    [load : LoadRaises, card : {NoExc}, fields : {<<>>}]
    \cup [load : {NoExc}, card : CardRaises, fields : {<<>>}]
    \cup [load : {NoExc}, card : {NoExc}, fields : SeqsUpTo(Fields, MaxFields)]

MNInit ==
    /\ running = "main" /\ pc = "load" /\ exc = NoExc
    /\ scenario \in Scenarios
    /\ keyno = 0 /\ origin = NoExc /\ stdout = None /\ exitcode = None
    /\ WWIdle /\ LDIdle /\ XPIdle

\* line 601
MainLoad ==
    /\ running = "main" /\ pc = "load"
    /\ exc' = scenario.load
    /\ origin' = scenario.load
    /\ pc' = IF scenario.load = NoExc THEN "Card" ELSE "except"
    /\ UNCHANGED <<running, wwvars, ldvars, xpvars, scenario, keyno, stdout, exitcode>>

\* lines 603, 536: Card(config)
GenCardNew ==
    /\ running = "main" /\ pc = "Card"
    /\ exc' = scenario.card
    /\ origin' = scenario.card
    /\ keyno' = 1
    /\ pc' = IF scenario.card = NoExc THEN "keys" ELSE "except"
    /\ UNCHANGED <<running, wwvars, ldvars, xpvars, scenario, stdout, exitcode>>

\* lines 538-554: the key is processed
GenCardKey ==
    /\ running = "main" /\ pc = "keys"
    /\ keyno <= Len(scenario.fields)
    /\ field_raises(scenario.fields[keyno]) = NoExc
    /\ keyno' = keyno + 1
    /\ UNCHANGED <<running, pc, exc, wwvars, ldvars, xpvars, scenario, origin,
                   stdout, exitcode>>

\* lines 538-557: processing the key raises a CardError, which is raised
\* again as CardError("%s: %s" % (k, err))
GenCardKeyCardError ==
    /\ running = "main" /\ pc = "keys"
    /\ keyno <= Len(scenario.fields)
    /\ isinstance(field_raises(scenario.fields[keyno]).type, "CardError")
    /\ origin' = field_raises(scenario.fields[keyno])
    /\ exc' = Raise("CardError", 557)
    /\ pc' = "except"
    /\ UNCHANGED <<running, wwvars, ldvars, xpvars, scenario, keyno, stdout, exitcode>>

\* lines 538-556: processing the key raises another exception
GenCardKeyOtherError ==
    /\ running = "main" /\ pc = "keys"
    /\ keyno <= Len(scenario.fields)
    /\ field_raises(scenario.fields[keyno]) # NoExc
    /\ ~isinstance(field_raises(scenario.fields[keyno]).type, "CardError")
    /\ origin' = field_raises(scenario.fields[keyno])
    /\ exc' = field_raises(scenario.fields[keyno])
    /\ pc' = "except"
    /\ UNCHANGED <<running, wwvars, ldvars, xpvars, scenario, keyno, stdout, exitcode>>

\* lines 559, 604: gencard returns the card, which is saved
MainSave ==
    /\ running = "main" /\ pc = "keys"
    /\ keyno > Len(scenario.fields)
    /\ exitcode' = 0
    /\ pc' = "exit"
    /\ UNCHANGED <<running, exc, wwvars, ldvars, xpvars, scenario, keyno, origin, stdout>>

\* lines 606-608
MainExceptConfigError ==
    /\ running = "main" /\ pc = "except"
    /\ isinstance(exc.type, "CardConfigError")
    /\ stdout' = "Config Error:"
    /\ exitcode' = 1
    /\ pc' = "exit"
    /\ UNCHANGED <<running, exc, wwvars, ldvars, xpvars, scenario, keyno, origin>>

\* lines 610-612
MainExceptCardError ==
    /\ running = "main" /\ pc = "except"
    /\ ~isinstance(exc.type, "CardConfigError")
    /\ isinstance(exc.type, "CardError")
    /\ stdout' = "Error:"
    /\ exitcode' = 1
    /\ pc' = "exit"
    /\ UNCHANGED <<running, exc, wwvars, ldvars, xpvars, scenario, keyno, origin>>

\* no except clause matches: the interpreter prints the traceback and
\* exits with 1
MainUncaught ==
    /\ running = "main" /\ pc = "except"
    /\ ~isinstance(exc.type, "CardConfigError")
    /\ ~isinstance(exc.type, "CardError")
    /\ stdout' = None
    /\ exitcode' = 1
    /\ pc' = "exit"
    /\ UNCHANGED <<running, exc, wwvars, ldvars, xpvars, scenario, keyno, origin>>

main ==
    \/ MainLoad \/ GenCardNew
    \/ GenCardKey \/ GenCardKeyCardError \/ GenCardKeyOtherError
    \/ MainSave
    \/ MainExceptConfigError \/ MainExceptCardError \/ MainUncaught

SpecMain == MNInit /\ [][main]_vars

(***************************************************************************)
(* Properties of Utils.word_wrap, under SpecWrap.                          *)
(***************************************************************************)
\* the candidate has been measured at the current font size and is within
\* the box in both directions
Fits(txt) ==
    /\ txt \in DOMAIN metrics
    /\ metrics[txt].text_width <= image.width
    /\ metrics[txt].text_height <= image.height

WrapDone == running = "word_wrap" /\ pc = "done"

\* C1: a call of word_wrap that returns a string returns a candidate whose
\* measured width and height at the final font size are both within the
\* box; in particular, once the font size has reached 0 or less without a
\* fit, the call does not return a string (it fails with CardError).
C1_ReturnsOnlyFittingText ==
    (WrapDone /\ exc = NoExc) => Fits(result)

\* C2: when the candidate is too wide and every column width from
\* maxcolumns-1 down to 1 has been tried without a fit, the next step of
\* word_wrap reduces the font size by 0.75, resets the candidate to the text
\* and goes on with the outer loop, without raising an error.
NoColumnWidthFits == running = "word_wrap" /\ pc = "columns" /\ columns <= 1

C2_ReducesWhenNoColumnFits ==
    [][NoColumnWidthFits =>
          /\ font_size' = font_size - FONT_STEP
          /\ mutable_message' = text
          /\ pc' = "while"
          /\ exc' = NoExc]_vars

\* C3: word_wrap makes at most 100 attempts, and it does not fail with
\* CardError when a candidate it measured at the current font size, the one
\* of the 100th attempt included, fits the box.
C3_FitWithinBudgetIsReturned ==
    /\ running = "word_wrap" =>
          ITERATION_ATTEMPTS - iteration_attempts \in 0..100 \/ pc = "start"
    /\ (WrapDone /\ exc.type = "CardError") =>
          \A txt \in DOMAIN metrics : ~Fits(txt)

(***************************************************************************)
(* Properties of CardConfig.load, under SpecLoad.                          *)
(***************************************************************************)
Loaded == running = "load" /\ pc = "done" /\ exc = NoExc
LoadDone == running = "load" /\ pc = "done"

Min(S) == CHOOSE x \in S : \A y \in S : x <= y

\* the files of the chain that set font_size in their Text section, and
\* those that set it in their DEFAULT section
TextSetters == {i \in 0..chain.depth : KindAt(i).text = "sets"}
DefaultSetters == {i \in 0..chain.depth : KindAt(i).default}

\* C4: after a successful load, a key set inside a section by two or more
\* files of the chain reads as the file nearest to the leaf set it.
C4_NearestToLeafWins ==
    (Loaded /\ Cardinality(TextSetters) >= 2) =>
        get(cfg, "Text", "font_size", None) = SetBy(Min(TextSetters), "Text")

\* C5: after a successful load, in every section of the merged config a key
\* that no file sets inside that section reads as the merged DEFAULT value,
\* the one of the file nearest to the leaf that sets it under DEFAULT (and
\* is absent when no file does).
C5_DefaultIsFallback ==
    Loaded =>
        \A s \in DOMAIN cfg.sections :
            (s # "Text" \/ TextSetters = {}) =>
                IF DefaultSetters = {}
                THEN "font_size" \notin options(cfg, s)
                ELSE get(cfg, s, "font_size", None)
                        = SetBy(Min(DefaultSetters), "DEFAULT")

\* C6: a chain of depth 100 whose files all have a Card section loads, a
\* chain of depth 101 fails with the ConfigError of line 144, and so does
\* every chain in which a file is its own template, directly or through the
\* first file; load never goes deeper than level 101.  (The chains that
\* load are those without a text that read_dict rejects.)
RejectedText ==
    /\ chain.cardtext.at >= 0
    /\ \/ interpolate_some(chain.cardtext.value).error # "none"
       \/ invalid_syntax(interpolate_some(chain.cardtext.value).value)

C6_TooManyTemplates ==
    /\ (LoadDone /\ chain.exists /\ chain.tail = "none" /\ chain.depth <= 100
          /\ ~RejectedText)
          => exc = NoExc
    /\ (LoadDone /\ chain.exists /\ chain.tail = "none" /\ chain.depth >= 101)
          => exc = Raise("CardConfigError", 144)
    /\ (LoadDone /\ chain.tail \in {"self", "root"})
          => exc = Raise("CardConfigError", 144)
    /\ (running = "load" /\ pc = "load") => call.level <= 101
    /\ running = "load" => Len(stack) <= 101

C6_Witness ==
    /\ LoadDone /\ chain.tail = "none" /\ chain.depth = 101
    /\ exc = Raise("CardConfigError", 144)
    /\ Len(stack) = 101

\* C7 as stated: load fails with CardFileError whenever its path names no
\* regular file and whenever a file of the chain declares a template that
\* names no regular file.
DeclaresMissingTemplate == chain.exists /\ chain.tail \in {"missing", "empty"}

C7_MissingFileIsFileError ==
    (LoadDone /\ (~chain.exists \/ DeclaresMissingTemplate))
        => exc = Raise("CardFileError", 148)

\* C7 amended: load fails with CardFileError whenever its path names no
\* regular file and whenever a file at depth 99 or less of the chain
\* declares a template that names no regular file.
C7_MissingFileWithinDepth ==
    (LoadDone /\ (~chain.exists \/ (DeclaresMissingTemplate /\ chain.depth <= 99)))
        => exc = Raise("CardFileError", 148)

C7_Witness ==
    /\ LoadDone /\ chain.tail = "missing" /\ chain.depth = 1
    /\ Len(stack) = 2
    /\ exc = Raise("CardFileError", 148)

\* C11: a load that fails, at any depth of the chain and for any reason,
\* leaves the merged config as it was before the call.
C11_FailedLoadLeavesConfig ==
    (LoadDone /\ exc # NoExc) => cfg = DEFAULTCFG

\* the part of C11 that the code keeps: a load that fails with one of the
\* errors load itself raises (lines 144, 148, 156) has merged nothing, and
\* nothing is merged while load descends the chain
C11_CardErrorsLeaveConfig ==
    /\ (LoadDone /\ exc.type \in {"CardFileError", "CardConfigError"})
          => cfg = DEFAULTCFG
    /\ (running = "load" /\ pc = "load") => cfg = DEFAULTCFG

\* a load that failed below two files that had something to merge
C11_CardErrorsWitness ==
    /\ LoadDone /\ exc = Raise("CardConfigError", 156)
    /\ Len(stack) = 2
    /\ KindAt(0).text = "sets" /\ KindAt(1).default

(***************************************************************************)
(* Properties of CardConfig.expand_paths, under SpecExpand.                *)
(***************************************************************************)
ExpandDone == running = "expand_paths" /\ pc = "done"

\* the file named by a relative path exists under the directory or under
\* one of the search paths
FoundUnder(dirs, path) == \E d \in dirs : (d \o path) \in disk

\* C8: expand_paths called with a config, a directory and the settings,
\* where Card.template is a relative path that exists neither under the
\* directory nor under a search path, fails with CardFileError.
C8_MissingTemplateIsFileError ==
    (/\ ExpandDone
     /\ Len(args) = 3
     /\ has_section(args[1], "Card")
     /\ get(args[1], "Card", "template", <<>>) = RelPath
     /\ ~FoundUnder({args[2]} \cup {args[3][n] : n \in DOMAIN args[3]}, RelPath))
        => exc.type = "CardFileError"

\* C9: after expand_paths(config, dir), every non-empty value of
\* Card.template, Card.background, Card.backside, of every Card key that
\* starts with "image", and of the font key of every section whose name
\* starts with "Title" or "Text" is the join of dir with the value it had.
C9_PathsAreJoined ==
    (ExpandDone /\ exc = NoExc) =>
        LET config == args[1]
            dir == args[2]
            was(s, key) == get(config, s, key, <<>>)
        IN  /\ \A key \in {"template", "background", "backside"}
                          \cup {x \in options(config, "Card") : startswith_image(x)} :
                   Len(was("Card", key)) > 0 =>
                       get(expanded, "Card", key, <<>>) = join(dir, was("Card", key))
            /\ \A s \in DOMAIN config.sections :
                   (startswith_Title_or_Text(s) /\ Len(was(s, "font")) > 0) =>
                       get(expanded, s, "font", <<>>) = join(dir, was(s, "font"))

(***************************************************************************)
(* Properties of a run, under SpecMain.                                    *)
(***************************************************************************)
\* the run failed while gencard processed a key of the Card section
FailedAtKey ==
    /\ running = "main" /\ pc = "exit"
    /\ origin # NoExc
    /\ scenario.load = NoExc /\ scenario.card = NoExc

\* C10: a failure while a Card key is processed in gencard reaches the top
\* level with its kind: a configuration error is reported with the prefix
\* "Config Error:" and the exit code 1, and only the other card errors
\* (image creation, rendering, fitting) with the prefix "Error:".
C10_ErrorKindIsPreserved ==
    FailedAtKey =>
        /\ exitcode = 1
        /\ origin.type = "CardConfigError" => stdout = "Config Error:"
        /\ stdout = "Error:" => origin.type = "CardError"

====
